---- MODULE Spec2Model ----
(***************************************************************************)
(* GoPostal: an SMTP-to-Graph relay.                                       *)
(*                                                                         *)
(* Three state machines share this module:                                 *)
(*   Spec       one SMTP session (pkg/receiver/session.go) driven by the   *)
(*              protocol engine, with the Sender behind its interface;     *)
(*   SpecToken  the GraphSender token cache (pkg/sender/graph.go) used by  *)
(*              concurrent delivery workers;                               *)
(*   SpecRetry  utils.DoWithBackoff (pkg/utils/utils.go), one step per     *)
(*              statement that can block or be interleaved.                *)
(* Strings the code inspects character by character (addresses, domains,   *)
(* passwords) are sequences of one-character strings.                      *)
(***************************************************************************)
EXTENDS Integers, Sequences, FiniteSets, TLC

VARIABLES
    \* ---- Session (pkg/receiver/session.go:23-36) and its configuration
    cfg,            \* configListener / configGlobal, immutable after load
    authenticated,  \* Session.authenticated
    emailSubject,   \* Session.emailSubject
    emailFrom,      \* Session.emailFrom
    emailTo,        \* Session.emailTo
    emailBody,      \* Session.emailBody
    ctxDone,        \* Session.ctx has been cancelled
    sasl,           \* the sasl.Server returned by Auth and not yet completed
    ret,            \* the last hook called: [op, arg, err]
    outbox,         \* the SendEmail call made by the last hook (NoCall if none)
    nread,          \* bytes the last Data call consumed from the reader
    \* ---- GraphSender token cache (pkg/sender/graph.go:24-34)
    token,          \* GraphSender.token (NoToken is the nil pointer)
    mu,             \* GraphSender.mu: the worker holding it, or 0
    now,            \* wall clock, seconds
    issued,         \* number of token requests issued so far (names the tokens)
    wk,             \* per worker: position and locals inside sendEmailOnce/Authenticate
    \* ---- DoWithBackoff (pkg/utils/utils.go:93-121)
    rb              \* the call's frame: arguments, loop index, position, result

sessVars == <<cfg, authenticated, emailSubject, emailFrom, emailTo, emailBody,
              ctxDone, sasl, ret, outbox, nread>>
tokVars == <<token, mu, now, issued, wk>>
retryVars == <<rb>>
vars == <<cfg, authenticated, emailSubject, emailFrom, emailTo, emailBody,
          ctxDone, sasl, ret, outbox, nread, token, mu, now, issued, wk, rb>>

-----------------------------------------------------------------------------
(* Bounds of the model.                                                    *)

\* largest limits.max_recipients explored
MaxRcptBound == 2
\* largest limits.max_size explored (bytes)
MaxSizeBound == 1
\* delivery workers sharing the GraphSender
NumWorkers == 2
\* token requests issued in one run
MaxRequests == 2
\* clock ticks (of 30 seconds) in one run
MaxTicks == 1
\* largest attempts argument of a DoWithBackoff call
MaxAttempts == 3
\* number of address bits the model keeps of an IP address
AddrBits == 2
\* largest number of recv.allowed_ips entries
MaxNets == 2

-----------------------------------------------------------------------------
(* Strings.                                                                *)

Min(a, b) == IF a < b THEN a ELSE b

\* unicode.ToLower on the letters the model uses
LowerChar(c) ==
    CASE c = "A" -> "a"
      [] c = "B" -> "b"
      [] c = "P" -> "p"
      [] c = "X" -> "x"
      [] c = "Y" -> "y"
      [] c = "Z" -> "z"
      [] OTHER -> c

\* strings.ToLower
ToLower(s) == [i \in 1..Len(s) |-> LowerChar(s[i])]

\* strings.EqualFold
EqualFold(s, t) == ToLower(s) = ToLower(t)

\* strings.HasSuffix
HasSuffix(s, suffix) ==
    /\ Len(s) >= Len(suffix)
    /\ SubSeq(s, Len(s) - Len(suffix) + 1, Len(s)) = suffix

\* strings.Trim(s, cutset): drop every leading and trailing character of cutset
Trim(s, cutset) ==
    LET keep == {i \in 1..Len(s) : s[i] \notin cutset}
    IN  IF keep = {} THEN <<>>
        ELSE LET lo == CHOOSE i \in keep : \A j \in keep : i <= j
                 hi == CHOOSE i \in keep : \A j \in keep : i >= j
             IN  SubSeq(s, lo, hi)

RECURSIVE Pow2(_)
Pow2(n) == IF n <= 0 THEN 1 ELSE 2 * Pow2(n - 1)

\* slices.Contains
Contains(seq, x) == \E i \in 1..Len(seq) : seq[i] = x

-----------------------------------------------------------------------------
(* Configuration (pkg/config).                                             *)

AuthDisabled == "disabled"
AuthAnonymous == "anonymous"
AuthPlain == "plain"
AuthPlainAny == "plain-any"
AuthModes == {AuthDisabled, AuthAnonymous, AuthPlain, AuthPlainAny}

\* sasl.Plain, sasl.Anonymous, and a mechanism the relay never offers
SaslPlain == "PLAIN"
SaslAnonymous == "ANONYMOUS"
Mechanisms == {SaslPlain, SaslAnonymous, "LOGIN"}

\* recv.auth.credentials: username -> password
Credentials == [u \in {"alice"} |-> "p"]
Usernames == {"alice", "bob"}
Passwords == {"p", "P"}
\* the trace identities an ANONYMOUS client claims
Identities == {"", "anon"}

\* MailPolicy values: no restriction, one address, one domain
PolicyNone == [Addresses |-> <<>>, Domains |-> <<>>]
PolicyAddr == [Addresses |-> << <<"a", "@", "X", ".", "y">> >>, Domains |-> <<>>]
PolicyDom == [Addresses |-> <<>>, Domains |-> << <<"z", ".", "Y">> >>]
Policies == {PolicyNone, PolicyAddr, PolicyDom}
\* the (limits.max_recipients, limits.max_size) pairs explored: the smallest
\* limits and the largest
LimitPairs == {<<1, 1>>, <<MaxRcptBound, MaxSizeBound>>}
\* the (valid_from, valid_to) pairs explored
PolicyPairs == {<<PolicyNone, PolicyNone>>, <<PolicyAddr, PolicyDom>>, <<PolicyDom, PolicyAddr>>}

\* isValidEmail
isValidEmail(email) ==
    /\ Len(email) >= 3
    /\ Len(email) <= 254
    /\ \E i \in 1..Len(email) : email[i] = "@"
    /\ LET at == CHOOSE i \in 1..Len(email) :
                    email[i] = "@" /\ \A j \in 1..(i - 1) : email[j] # "@"
       IN  at # 1 /\ at # Len(email)

\* isValidDomain
isValidDomain(domain) ==
    /\ Len(domain) >= 1
    /\ Len(domain) <= 253
    /\ \E i \in 1..Len(domain) : domain[i] = "."

\* Config.Validate on the fields a session reads: a known auth mode, credentials
\* for mode plain, and mail policies that hold only valid entries
Validate(c) ==
    /\ c.Mode \in AuthModes
    /\ (c.Mode = AuthPlain => DOMAIN Credentials # {})
    /\ \A p \in {c.ValidFrom, c.ValidTo} :
          /\ \A i \in 1..Len(p.Addresses) : isValidEmail(p.Addresses[i])
          /\ \A i \in 1..Len(p.Domains) : isValidDomain(p.Domains[i])

\* The configurations a session can be bound to.  Validate rejects negative
\* limits and replaces a zero limit by its default, so both limits are at
\* least 1 in every loaded configuration.
Configs ==
    {c \in [RequireAuth : BOOLEAN, Mode : AuthModes,
            ValidFrom : Policies, ValidTo : Policies,
            MaxRecipients : 1..MaxRcptBound, MaxSize : 1..MaxSizeBound] :
        /\ Validate(c)
        /\ <<c.ValidFrom, c.ValidTo>> \in PolicyPairs
        /\ <<c.MaxRecipients, c.MaxSize>> \in LimitPairs}

-----------------------------------------------------------------------------
(* Authenticators (pkg/auth/auth.go).                                      *)

\* mutant of PlaintextCheck: the password is compared ignoring case
PlaintextCheckFold(username, password) ==
    IF username \in DOMAIN Credentials
    THEN LowerChar(password) = LowerChar(Credentials[username])
    ELSE FALSE

\* AuthenticatorPlaintext.Check
PlaintextCheck(username, password) ==
    IF username \in DOMAIN Credentials
    THEN password = Credentials[username]
    ELSE FALSE

\* AuthenticatorAlwaysAllow.Check
AlwaysAllowCheck(username, password) == TRUE

\* Config.Validate's choice of c.Recv.Authenticator, applied
AuthenticatorCheck(c, username, password) ==
    IF c.Mode = AuthPlain
    THEN PlaintextCheck(username, password)
    ELSE AlwaysAllowCheck(username, password)

-----------------------------------------------------------------------------
(* Session hooks (pkg/receiver/session.go).                                *)

Nil == "nil"
ErrAuthRequired == "ErrAuthRequired"
ErrServerClosed == "ErrServerClosed"
ErrAuthUnsupported == "ErrAuthUnsupported"
ErrAuthFailed == "ErrAuthFailed"
ErrInvalidEmail == "ErrInvalidEmail"
ErrFromDisallowed == "ErrFromDisallowed"
ErrToDisallowed == "ErrToDisallowed"
ErrTooManyRecipients == "ErrTooManyRecipients"
ErrDataTooLarge == "ErrDataTooLarge"
ErrRead == "ErrRead"
ErrSend == "ErrSend"

\* outbox when the last hook did not call SendEmail
NoCall ==
    [called |-> FALSE, from |-> <<>>, to |-> <<>>, subject |-> <<>>, body |-> <<>>,
     err |-> Nil]
NoServer == "none"
NoSubject == <<"(", ")">>
Brackets == {"<", ">"}

\* what the client sends as MAIL FROM / RCPT TO argument
AddrInputs ==
    { <<"<", "A", "@", "x", ".", "y", ">">>,
      <<"b", "@", "Z", ".", "y">>,
      <<"<", ">">> }

\* A DATA payload: each element stands for one byte of the stream.
\* "S" is a "Subject: s" header line, "n" the blank line that ends the header,
\* "x" any other byte.
PayloadBytes == {"S", "n", "x"}
Payloads == UNION {[1..k -> PayloadBytes] : k \in 0..(MaxSizeBound + 1)}

\* mutant of MechanismsFor: the listener's require_auth is not consulted
MechanismsForAnyListener(requireAuth, mode) ==
    CASE mode = AuthDisabled -> <<>>
      [] mode \in {AuthPlainAny, AuthPlain} -> <<SaslPlain>>
      [] mode = AuthAnonymous -> <<SaslAnonymous>>
      [] OTHER -> <<>>

\* the list Session.AuthMechanisms builds for a listener's require_auth and
\* an auth mode
MechanismsFor(requireAuth, mode) ==
    IF ~requireAuth THEN <<>>
    ELSE CASE mode = AuthDisabled -> <<>>
           [] mode \in {AuthPlainAny, AuthPlain} -> <<SaslPlain>>
           [] mode = AuthAnonymous -> <<SaslAnonymous>>
           [] OTHER -> <<>>

\* Session.AuthMechanisms
AuthMechanisms == MechanismsFor(cfg.RequireAuth, cfg.Mode)

\* mutant of PolicyAllows: addresses and domains are compared as written
PolicyAllowsCaseSensitive(policy, addr) ==
    IF Len(policy.Addresses) > 0 \/ Len(policy.Domains) > 0
    THEN \/ \E i \in 1..Len(policy.Addresses) : addr = policy.Addresses[i]
         \/ \E i \in 1..Len(policy.Domains) :
                HasSuffix(addr, <<"@">> \o policy.Domains[i])
    ELSE TRUE

\* the allow-policy test shared by Mail and Rcpt
PolicyAllows(policy, addr) ==
    IF Len(policy.Addresses) > 0 \/ Len(policy.Domains) > 0
    THEN \/ \E i \in 1..Len(policy.Addresses) : EqualFold(addr, policy.Addresses[i])
         \/ \E i \in 1..Len(policy.Domains) :
                HasSuffix(ToLower(addr), <<"@">> \o ToLower(policy.Domains[i]))
    ELSE TRUE

\* mutant of AuthErr: the mechanism is not looked up in the offered list
AuthErrAnyMechanism(mech) ==
    IF ctxDone THEN ErrServerClosed
    ELSE IF mech \in {SaslAnonymous, SaslPlain} THEN Nil
    ELSE ErrAuthUnsupported

\* the error Session.Auth returns for mechanism mech
AuthErr(mech) ==
    IF ctxDone THEN ErrServerClosed
    ELSE IF ~Contains(AuthMechanisms, mech) THEN ErrAuthUnsupported
    ELSE IF mech \in {SaslAnonymous, SaslPlain} THEN Nil
    ELSE ErrAuthUnsupported

\* the error Session.Mail returns for argument from
MailErr(from) ==
    IF cfg.RequireAuth /\ ~authenticated THEN ErrAuthRequired
    ELSE IF ctxDone THEN ErrServerClosed
    ELSE IF Len(Trim(from, Brackets)) = 0 THEN ErrInvalidEmail
    ELSE IF ~PolicyAllows(cfg.ValidFrom, Trim(from, Brackets)) THEN ErrFromDisallowed
    ELSE Nil

\* mutant of RcptErr: the limit test is off by one (> for >=)
RcptErrOffByOne(to) ==
    IF cfg.RequireAuth /\ ~authenticated THEN ErrAuthRequired
    ELSE IF ctxDone THEN ErrServerClosed
    ELSE IF Len(Trim(to, Brackets)) = 0 THEN ErrInvalidEmail
    ELSE IF ~PolicyAllows(cfg.ValidTo, Trim(to, Brackets)) THEN ErrToDisallowed
    ELSE IF Len(emailTo) > cfg.MaxRecipients THEN ErrTooManyRecipients
    ELSE Nil

\* the error Session.Rcpt returns for argument to
RcptErr(to) ==
    IF cfg.RequireAuth /\ ~authenticated THEN ErrAuthRequired
    ELSE IF ctxDone THEN ErrServerClosed
    ELSE IF Len(Trim(to, Brackets)) = 0 THEN ErrInvalidEmail
    ELSE IF ~PolicyAllows(cfg.ValidTo, Trim(to, Brackets)) THEN ErrToDisallowed
    ELSE IF Len(emailTo) >= cfg.MaxRecipients THEN ErrTooManyRecipients
    ELSE Nil

\* mutant of LimitRead: the reader is limited to MaxSize bytes, without the
\* sentinel byte
LimitReadNoSentinel(payload) == SubSeq(payload, 1, Min(Len(payload), cfg.MaxSize))

\* io.ReadAll(io.LimitReader(r, MaxSize+1)): the bytes Data gets from the stream
LimitRead(payload) == SubSeq(payload, 1, Min(Len(payload), cfg.MaxSize + 1))

\* mutant of DataErr: Data does not test the authenticated flag
DataErrNoAuthCheck(payload, readFails) ==
    IF ctxDone THEN ErrServerClosed
    ELSE IF readFails THEN ErrRead
    ELSE IF Len(LimitRead(payload)) > cfg.MaxSize THEN ErrDataTooLarge
    ELSE Nil

\* the error Session.Data returns before it parses the message, Nil if none
DataErr(payload, readFails) ==
    IF cfg.RequireAuth /\ ~authenticated THEN ErrAuthRequired
    ELSE IF ctxDone THEN ErrServerClosed
    ELSE IF readFails THEN ErrRead
    ELSE IF Len(LimitRead(payload)) > cfg.MaxSize THEN ErrDataTooLarge
    ELSE Nil

\* position of the first blank line of data, 0 if there is none
FirstBlank(data) ==
    IF \E i \in 1..Len(data) : data[i] = "n"
    THEN CHOOSE i \in 1..Len(data) : data[i] = "n" /\ \A j \in 1..(i - 1) : data[j] # "n"
    ELSE 0

\* the header block mail.ReadMessage reads: everything before the first blank line
HeaderPart(data) ==
    IF FirstBlank(data) = 0 THEN data ELSE SubSeq(data, 1, FirstBlank(data) - 1)

\* mail.ReadMessage succeeds: the header block holds header lines only, and the
\* stream does not end before a header or the blank line was read
ReadMessageOk(data) ==
    /\ \A i \in 1..Len(HeaderPart(data)) : HeaderPart(data)[i] = "S"
    /\ (FirstBlank(data) > 0 \/ Len(HeaderPart(data)) > 0)

IsSubjectLine(b) == b = "S"
IsNotSubjectLine(b) == b # "S"

\* the subject Data records for data (both branches of the parse)
ParsedSubject(data) ==
    IF ReadMessageOk(data)
    THEN IF Len(HeaderPart(data)) > 0 THEN <<"s">> ELSE NoSubject
    ELSE IF \E i \in 1..Len(data) : IsSubjectLine(data[i]) THEN <<"s">> ELSE NoSubject

\* the body Data records for data: the message body when the parse succeeds,
\* else the raw data with every Subject line removed
ParsedBody(data) ==
    IF ReadMessageOk(data)
    THEN IF FirstBlank(data) = 0 THEN <<>>
         ELSE SubSeq(data, FirstBlank(data) + 1, Len(data))
    ELSE SelectSeq(data, IsNotSubjectLine)

\* the session accepts hooks: it has not logged out, and no SASL exchange is open
Ready == ret.op # "Logout" /\ sasl = NoServer

Result(op, arg, err) == [op |-> op, arg |-> arg, err |-> err]

\* Session.Auth
Auth(mech) ==
    /\ Ready
    /\ sasl' = IF AuthErr(mech) = Nil THEN mech ELSE NoServer
    /\ ret' = Result("Auth", mech, AuthErr(mech))
    /\ outbox' = NoCall
    /\ nread' = 0
    /\ UNCHANGED <<cfg, authenticated, emailSubject, emailFrom, emailTo, emailBody, ctxDone>>
    /\ UNCHANGED <<tokVars, retryVars>>

\* mutant of authPlain: the flag is assigned the verdict of the check
authPlainAssigns(identity, username, password) ==
    /\ ret.op # "Logout"
    /\ sasl = SaslPlain
    /\ sasl' = NoServer
    /\ authenticated' = AuthenticatorCheck(cfg, username, password)
    /\ ret' = Result("authPlain", <<username, password>>,
                     IF AuthenticatorCheck(cfg, username, password)
                     THEN Nil ELSE ErrAuthFailed)
    /\ outbox' = NoCall
    /\ nread' = 0
    /\ UNCHANGED <<cfg, emailSubject, emailFrom, emailTo, emailBody, ctxDone>>
    /\ UNCHANGED <<tokVars, retryVars>>

\* Session.authPlain, called by the PLAIN server Auth returned
authPlain(identity, username, password) ==
    /\ ret.op # "Logout"
    /\ sasl = SaslPlain
    /\ sasl' = NoServer
    /\ IF AuthenticatorCheck(cfg, username, password)
       THEN /\ authenticated' = TRUE
            /\ ret' = Result("authPlain", <<username, password>>, Nil)
       ELSE /\ authenticated' = authenticated
            /\ ret' = Result("authPlain", <<username, password>>, ErrAuthFailed)
    /\ outbox' = NoCall
    /\ nread' = 0
    /\ UNCHANGED <<cfg, emailSubject, emailFrom, emailTo, emailBody, ctxDone>>
    /\ UNCHANGED <<tokVars, retryVars>>

\* mutant of authAnonymous: an empty identity is refused
authAnonymousNamed(identity) ==
    /\ ret.op # "Logout"
    /\ sasl = SaslAnonymous
    /\ sasl' = NoServer
    /\ authenticated' = (authenticated \/ identity # "")
    /\ ret' = Result("authAnonymous", identity, IF identity # "" THEN Nil ELSE ErrAuthFailed)
    /\ outbox' = NoCall
    /\ nread' = 0
    /\ UNCHANGED <<cfg, emailSubject, emailFrom, emailTo, emailBody, ctxDone>>
    /\ UNCHANGED <<tokVars, retryVars>>

\* Session.authAnonymous, called by the ANONYMOUS server Auth returned
authAnonymous(identity) ==
    /\ ret.op # "Logout"
    /\ sasl = SaslAnonymous
    /\ sasl' = NoServer
    /\ authenticated' = TRUE
    /\ ret' = Result("authAnonymous", identity, Nil)
    /\ outbox' = NoCall
    /\ nread' = 0
    /\ UNCHANGED <<cfg, emailSubject, emailFrom, emailTo, emailBody, ctxDone>>
    /\ UNCHANGED <<tokVars, retryVars>>

\* Session.Mail
Mail(from) ==
    /\ Ready
    /\ emailFrom' = IF MailErr(from) = Nil THEN Trim(from, Brackets) ELSE emailFrom
    /\ ret' = Result("Mail", from, MailErr(from))
    /\ outbox' = NoCall
    /\ nread' = 0
    /\ UNCHANGED <<cfg, authenticated, emailSubject, emailTo, emailBody, ctxDone, sasl>>
    /\ UNCHANGED <<tokVars, retryVars>>

\* mutant of Rcpt: the address is appended before the limit is tested
RcptAppendsFirst(to) ==
    /\ Ready
    /\ emailTo' = IF RcptErr(to) \in {Nil, ErrTooManyRecipients}
                  THEN Append(emailTo, Trim(to, Brackets))
                  ELSE emailTo
    /\ ret' = Result("Rcpt", to, RcptErr(to))
    /\ outbox' = NoCall
    /\ nread' = 0
    /\ UNCHANGED <<cfg, authenticated, emailSubject, emailFrom, emailBody, ctxDone, sasl>>
    /\ UNCHANGED <<tokVars, retryVars>>

\* Session.Rcpt
Rcpt(to) ==
    /\ Ready
    /\ emailTo' = IF RcptErr(to) = Nil
                  THEN Append(emailTo, Trim(to, Brackets))
                  ELSE emailTo
    /\ ret' = Result("Rcpt", to, RcptErr(to))
    /\ outbox' = NoCall
    /\ nread' = 0
    /\ UNCHANGED <<cfg, authenticated, emailSubject, emailFrom, emailBody, ctxDone, sasl>>
    /\ UNCHANGED <<tokVars, retryVars>>

\* mutant of SendResult: Data logs the error of SendEmail and reports success
SendResultSwallowed(sendErr) == Nil

\* what Data returns once SendEmail has returned sendErr
SendResult(sendErr) == IF sendErr # Nil THEN sendErr ELSE Nil

\* Session.Data.  sendErr is what Sender.SendEmail returns (the Sender is an
\* interface value; GraphSender's implementation is SpecRetry and SpecToken).
Data(payload, readFails, sendErr) ==
    /\ Ready
    /\ IF DataErr(payload, readFails) # Nil
       THEN /\ ret' = Result("Data", Len(payload), DataErr(payload, readFails))
            /\ outbox' = NoCall
            /\ UNCHANGED <<emailSubject, emailBody>>
       ELSE /\ emailSubject' = ParsedSubject(LimitRead(payload))
            /\ emailBody' = ParsedBody(LimitRead(payload))
            /\ outbox' = [called |-> TRUE, from |-> emailFrom, to |-> emailTo,
                          subject |-> emailSubject', body |-> emailBody',
                          err |-> sendErr]
            /\ ret' = Result("Data", Len(payload), SendResult(sendErr))
    /\ nread' = IF DataErr(payload, readFails) \in {ErrAuthRequired, ErrServerClosed, ErrRead}
                THEN 0
                ELSE Len(LimitRead(payload))
    /\ UNCHANGED <<cfg, authenticated, emailFrom, emailTo, ctxDone, sasl>>
    /\ UNCHANGED <<tokVars, retryVars>>

\* mutant of Reset: the session has to authenticate again
ResetDropsAuth ==
    /\ Ready
    /\ emailFrom' = <<>>
    /\ emailTo' = <<>>
    /\ emailBody' = <<>>
    /\ authenticated' = FALSE
    /\ ret' = Result("Reset", <<>>, Nil)
    /\ outbox' = NoCall
    /\ nread' = 0
    /\ UNCHANGED <<cfg, emailSubject, ctxDone, sasl>>
    /\ UNCHANGED <<tokVars, retryVars>>

\* Session.Reset
Reset ==
    /\ Ready
    /\ emailFrom' = <<>>
    /\ emailTo' = <<>>
    /\ emailBody' = <<>>
    /\ ret' = Result("Reset", <<>>, Nil)
    /\ outbox' = NoCall
    /\ nread' = 0
    /\ UNCHANGED <<cfg, authenticated, emailSubject, ctxDone, sasl>>
    /\ UNCHANGED <<tokVars, retryVars>>

\* Session.Logout
Logout ==
    /\ Ready
    /\ ret' = Result("Logout", <<>>, Nil)
    /\ outbox' = NoCall
    /\ nread' = 0
    /\ UNCHANGED <<cfg, authenticated, emailSubject, emailFrom, emailTo, emailBody,
                   ctxDone, sasl>>
    /\ UNCHANGED <<tokVars, retryVars>>

\* the interrupt signal cancels the context every session shares
Cancel ==
    /\ ~ctxDone
    /\ ret.op # "Logout"
    /\ ctxDone' = TRUE
    /\ UNCHANGED <<cfg, authenticated, emailSubject, emailFrom, emailTo, emailBody,
                   sasl, ret, outbox, nread>>
    /\ UNCHANGED <<tokVars, retryVars>>

-----------------------------------------------------------------------------
(* The idle state of each machine: a specification leaves the machines it  *)
(* does not run in it.                                                     *)

Workers == 1..NumWorkers

\* the nil *AuthToken (issued tokens are numbered from 1)
NoToken == [Token |-> 0, ExpiresAt |-> 0]

\* a worker outside sendEmailOnce, its locals cleared
WorkerIdle ==
    [pc |-> "idle", tok |-> NoToken, expiresIn |-> 0, err |-> Nil, reqs |-> 0,
     posted |-> FALSE, status |-> 0]

TokenIdle ==
    /\ token = NoToken
    /\ mu = 0
    /\ now = 0
    /\ issued = 0
    /\ wk = [w \in Workers |-> WorkerIdle]

\* no DoWithBackoff call is running
NoFrame ==
    [pc |-> "idle", attempts |-> 0, backoff |-> 0, i |-> 0, err |-> Nil,
     sleep |-> 0, cancelled |-> FALSE, calls |-> 0, fails |-> 0, result |-> Nil]

RetryIdle == rb = NoFrame

SessionIdle ==
    /\ cfg = [RequireAuth |-> FALSE]
    /\ authenticated = FALSE
    /\ emailSubject = <<>>
    /\ emailFrom = <<>>
    /\ emailTo = <<>>
    /\ emailBody = <<>>
    /\ ctxDone = FALSE
    /\ sasl = NoServer
    /\ ret = Result("idle", <<>>, Nil)
    /\ outbox = NoCall
    /\ nread = 0

-----------------------------------------------------------------------------
(* Spec: one session, from Listener.NewSession to Logout.                  *)

\* the Session Listener.NewSession returns
Init ==
    /\ cfg \in Configs
    /\ authenticated = FALSE
    /\ emailSubject = <<>>
    /\ emailFrom = <<>>
    /\ emailTo = <<>>
    /\ emailBody = <<>>
    /\ ctxDone = FALSE
    /\ sasl = NoServer
    /\ ret = Result("NewSession", <<>>, Nil)
    /\ outbox = NoCall
    /\ nread = 0
    /\ TokenIdle
    /\ RetryIdle

Next ==
    \/ \E mech \in Mechanisms : Auth(mech)
    \/ \E username \in Usernames, password \in Passwords : authPlain("", username, password)
    \/ \E identity \in Identities : authAnonymous(identity)
    \/ \E from \in AddrInputs : Mail(from)
    \/ \E to \in AddrInputs : Rcpt(to)
    \/ \E payload \in Payloads, sendErr \in {Nil, ErrSend} : Data(payload, FALSE, sendErr)
    \/ Data(<<>>, TRUE, Nil)
    \/ Reset
    \/ Logout
    \/ Cancel

Spec == Init /\ [][Next]_vars

-----------------------------------------------------------------------------
(* SpecToken: the GraphSender token cache (pkg/sender/graph.go), shared by *)
(* the delivery workers.  Each worker runs sendEmailOnce again and again;  *)
(* every step below is one shared-memory access, lock operation or network *)
(* exchange of that code.  Time is in seconds.                             *)

ErrAuthenticationFailed == "authentication failed"
ErrSendFailed == "failed to send email"

\* the safety margin of Authenticate: 1*time.Minute, in seconds
TokenMargin == 60

\* expires_in values the identity provider answers with, seconds
ExpiresIns == {60, 90}

\* mutant of TokenStillValid: a token with exactly the margin left is reused
TokenStillValidInclusive(tok, t) == tok # NoToken /\ tok.ExpiresAt - t >= TokenMargin

\* the test of Authenticate's first line at time t
TokenStillValid(tok, t) == tok # NoToken /\ tok.ExpiresAt - t > TokenMargin

\* the AuthToken getAuthToken builds from a response at time t
NewAuthToken(id, expiresIn, t) == [Token |-> id, ExpiresAt |-> t + expiresIn]

\* a worker enters sendEmailOnce, which calls Authenticate
Call(w) ==
    /\ wk[w].pc \in {"idle", "done"}
    /\ wk' = [wk EXCEPT ![w] = [WorkerIdle EXCEPT !.pc = "check"]]
    /\ UNCHANGED <<token, mu, now, issued>>
    /\ UNCHANGED <<sessVars, retryVars>>

\* Authenticate, first statement: return nil if the cached token is still
\* valid, else go on to fetch a new one (gs.token is read without gs.mu)
CheckToken(w) ==
    /\ wk[w].pc = "check"
    /\ wk' = [wk EXCEPT ![w].pc = IF TokenStillValid(token, now) THEN "send" ELSE "request"]
    /\ UNCHANGED <<token, mu, now, issued>>
    /\ UNCHANGED <<sessVars, retryVars>>

\* getAuthToken sends the token request (httpClient.Do)
SendTokenRequest(w) ==
    /\ wk[w].pc = "request"
    /\ issued < MaxRequests
    /\ issued' = issued + 1
    /\ wk' = [wk EXCEPT ![w].pc = "await", ![w].reqs = @ + 1,
                        ![w].tok = [Token |-> issued + 1, ExpiresAt |-> 0]]
    /\ UNCHANGED <<token, mu, now>>
    /\ UNCHANGED <<sessVars, retryVars>>

\* mutant of TokenRequestFails: the failed refresh drops the cached token
TokenRequestFailsClears(w) ==
    /\ wk[w].pc = "await"
    /\ wk' = [wk EXCEPT ![w].pc = "done", ![w].err = ErrAuthenticationFailed,
                        ![w].tok = NoToken]
    /\ token' = NoToken
    /\ UNCHANGED <<mu, now, issued>>
    /\ UNCHANGED <<sessVars, retryVars>>

\* the request fails (transport error or timeout, status other than 200,
\* unreadable or malformed body): Authenticate returns the wrapped error
TokenRequestFails(w) ==
    /\ wk[w].pc = "await"
    /\ wk' = [wk EXCEPT ![w].pc = "done", ![w].err = ErrAuthenticationFailed,
                        ![w].tok = NoToken]
    /\ UNCHANGED <<token, mu, now, issued>>
    /\ UNCHANGED <<sessVars, retryVars>>

\* a 200 response with a well-formed body: getAuthToken returns the new token
TokenRequestSucceeds(w, expiresIn) ==
    /\ wk[w].pc = "await"
    /\ wk' = [wk EXCEPT ![w].pc = "lock", ![w].expiresIn = expiresIn,
                        ![w].tok = NewAuthToken(wk[w].tok.Token, expiresIn, now)]
    /\ UNCHANGED <<token, mu, now, issued>>
    /\ UNCHANGED <<sessVars, retryVars>>

\* gs.mu.Lock()
Lock(w) ==
    /\ wk[w].pc = "lock"
    /\ mu = 0
    /\ mu' = w
    /\ wk' = [wk EXCEPT ![w].pc = "store"]
    /\ UNCHANGED <<token, now, issued>>
    /\ UNCHANGED <<sessVars, retryVars>>

\* gs.token = tok
Store(w) ==
    /\ wk[w].pc = "store"
    /\ token' = wk[w].tok
    /\ wk' = [wk EXCEPT ![w].pc = "unlock"]
    /\ UNCHANGED <<mu, now, issued>>
    /\ UNCHANGED <<sessVars, retryVars>>

\* the deferred gs.mu.Unlock(); Authenticate returns nil
Unlock(w) ==
    /\ wk[w].pc = "unlock"
    /\ mu = w
    /\ mu' = 0
    /\ wk' = [wk EXCEPT ![w].pc = "send", ![w].tok = NoToken, ![w].expiresIn = 0]
    /\ UNCHANGED <<token, now, issued>>
    /\ UNCHANGED <<sessVars, retryVars>>

\* http.StatusAccepted
StatusAccepted == 202

\* what the send POST comes back with: 0 stands for no usable response
\* (httpClient.Do or the read of the body failed), the others are the status
\* code of the mail API's response
Statuses == {0, 200, StatusAccepted, 500}

\* mutant of PostMail: every 2xx status counts as success
PostMailAny2xx(w, status) ==
    /\ wk[w].pc = "send"
    /\ wk' = [wk EXCEPT ![w].pc = IF token = NoToken THEN "panicked" ELSE "done",
                        ![w].posted = token # NoToken,
                        ![w].status = IF token = NoToken THEN 0 ELSE status,
                        ![w].err = IF token # NoToken /\ status \in 200..299
                                   THEN Nil ELSE ErrSendFailed]
    /\ UNCHANGED <<token, mu, now, issued>>
    /\ UNCHANGED <<sessVars, retryVars>>

\* sendEmailOnce after Authenticate returned nil: the request is built with
\* gs.token.Token (read without gs.mu; a nil gs.token panics there) and
\* posted; the attempt returns nil only on a response with StatusAccepted
PostMail(w, status) ==
    /\ wk[w].pc = "send"
    /\ wk' = [wk EXCEPT ![w].pc = IF token = NoToken THEN "panicked" ELSE "done",
                        ![w].posted = token # NoToken,
                        ![w].status = IF token = NoToken THEN 0 ELSE status,
                        ![w].err = IF token # NoToken /\ status = StatusAccepted
                                   THEN Nil ELSE ErrSendFailed]
    /\ UNCHANGED <<token, mu, now, issued>>
    /\ UNCHANGED <<sessVars, retryVars>>

\* 30 seconds pass
Tick ==
    /\ now < 30 * MaxTicks
    /\ now' = now + 30
    /\ UNCHANGED <<token, mu, issued, wk>>
    /\ UNCHANGED <<sessVars, retryVars>>

InitToken ==
    /\ SessionIdle
    /\ TokenIdle
    /\ RetryIdle

NextToken ==
    \/ \E w \in Workers : Call(w)
    \/ \E w \in Workers : CheckToken(w)
    \/ \E w \in Workers : SendTokenRequest(w)
    \/ \E w \in Workers : TokenRequestFails(w)
    \/ \E w \in Workers, expiresIn \in ExpiresIns : TokenRequestSucceeds(w, expiresIn)
    \/ \E w \in Workers : Lock(w)
    \/ \E w \in Workers : Store(w)
    \/ \E w \in Workers : Unlock(w)
    \/ \E w \in Workers, status \in Statuses : PostMail(w, status)
    \/ Tick

SpecToken == InitToken /\ [][NextToken]_vars

-----------------------------------------------------------------------------
(* SpecAdmit: Listener.NewSession on the connections a listener accepts.   *)
(* An IP address is its length in bytes (4, or 16 with the IPv4-mapped     *)
(* prefix or without it) and the AddrBits address bits n the model keeps;  *)
(* a network is an IP and the number of leading one bits of its mask.      *)
(* cfg holds recv.allowed_ips as configured and the AllowedNets Validate   *)
(* derived from it.  uuid.NewRandom reads the system's random source and   *)
(* is taken not to fail.                                                   *)

ErrSourceIPDisallowed == "ErrSourceIPDisallowed"
ErrSourceIPInvalid == "ErrSourceIPInvalid"

\* the nil net.IP
NoIP == [len |-> 0, mapped |-> FALSE, n |-> 0]

AddrNumbers == 0..(Pow2(AddrBits) - 1)

\* 4-byte IPv4 addresses, IPv4-mapped 16-byte addresses, other IPv6 addresses
IPs ==
    {[len |-> 4, mapped |-> FALSE, n |-> n] : n \in AddrNumbers}
      \cup {[len |-> 16, mapped |-> m, n |-> n] : m \in BOOLEAN, n \in AddrNumbers}

\* net.IPv4zero (kept in 16-byte form) and net.IPv6zero
IPv4zero == [len |-> 16, mapped |-> TRUE, n |-> 0]
IPv6zero == [len |-> 16, mapped |-> FALSE, n |-> 0]

\* IP.To4
To4(ip) ==
    IF ip.len = 4 THEN ip
    ELSE IF ip.len = 16 /\ ip.mapped THEN [len |-> 4, mapped |-> FALSE, n |-> ip.n]
    ELSE NoIP

\* IP.Mask with a mask of ones leading one bits
Mask(ip, ones) ==
    [ip EXCEPT !.n = (ip.n \div Pow2(AddrBits - ones)) * Pow2(AddrBits - ones)]

\* an entry of recv.allowed_ips: an address and a prefix length; a plain
\* address is the entry of full prefix length
AllowEntries ==
    { [IP |-> [len |-> 4, mapped |-> FALSE, n |-> 0], ones |-> 1],
      [IP |-> [len |-> 4, mapped |-> FALSE, n |-> Pow2(AddrBits) - 1], ones |-> AddrBits],
      [IP |-> [len |-> 16, mapped |-> FALSE, n |-> 1], ones |-> 1] }

AllowLists == UNION {[1..k -> AllowEntries] : k \in 0..MaxNets}

\* ParseNet
ParseNet(e) ==
    IF To4(e.IP) # NoIP
    THEN [IP |-> Mask(To4(e.IP), e.ones), ones |-> e.ones]
    ELSE [IP |-> Mask(e.IP, e.ones), ones |-> e.ones]

\* Config.Validate on recv.allowed_ips: the value of AllowedNets
ValidateNets(allowedIPs) ==
    IF Len(allowedIPs) > 0
    THEN [i \in 1..Len(allowedIPs) |-> ParseNet(allowedIPs[i])]
    ELSE << [IP |-> IPv4zero, ones |-> 0], [IP |-> IPv6zero, ones |-> 0] >>

\* mutant of NetContains: the mask is not applied
NetContainsUnmasked(ipnet, ip) ==
    LET x == IF To4(ip) # NoIP THEN To4(ip) ELSE ip
        nn == IF To4(ipnet.IP) # NoIP THEN To4(ipnet.IP) ELSE ipnet.IP
    IN  x.len = nn.len /\ nn.n = x.n

\* IPNet.Contains
NetContains(ipnet, ip) ==
    LET x == IF To4(ip) # NoIP THEN To4(ip) ELSE ip
        nn == IF To4(ipnet.IP) # NoIP THEN To4(ipnet.IP) ELSE ipnet.IP
    IN  /\ x.len = nn.len
        /\ Mask(nn, ipnet.ones).n = Mask(x, ipnet.ones).n

\* the remote addresses of accepted connections: TCP endpoints and one that is
\* not a *net.TCPAddr
RemoteAddrs ==
    {[network |-> "tcp", IP |-> ip] : ip \in IPs} \cup {[network |-> "unix", IP |-> NoIP]}

\* the error Listener.NewSession returns for remote address raddr
NewSessionErr(raddr) ==
    IF raddr.network # "tcp" THEN ErrSourceIPInvalid
    ELSE IF Len(cfg.AllowedNets) > 0
              /\ ~\E i \in 1..Len(cfg.AllowedNets) : NetContains(cfg.AllowedNets[i], raddr.IP)
         THEN ErrSourceIPDisallowed
    ELSE Nil

\* Listener.NewSession
NewSession(raddr) ==
    /\ ret' = Result("NewSession", raddr, NewSessionErr(raddr))
    /\ IF NewSessionErr(raddr) = Nil
       THEN /\ authenticated' = FALSE
            /\ emailSubject' = <<>>
            /\ emailFrom' = <<>>
            /\ emailTo' = <<>>
            /\ emailBody' = <<>>
       ELSE UNCHANGED <<authenticated, emailSubject, emailFrom, emailTo, emailBody>>
    /\ UNCHANGED <<cfg, ctxDone, sasl, outbox, nread>>
    /\ UNCHANGED <<tokVars, retryVars>>

InitAdmit ==
    /\ \E allowedIPs \in AllowLists :
          cfg = [AllowedIPs |-> allowedIPs, AllowedNets |-> ValidateNets(allowedIPs)]
    /\ authenticated = FALSE
    /\ emailSubject = <<>>
    /\ emailFrom = <<>>
    /\ emailTo = <<>>
    /\ emailBody = <<>>
    /\ ctxDone = FALSE
    /\ sasl = NoServer
    /\ ret = Result("idle", <<>>, Nil)
    /\ outbox = NoCall
    /\ nread = 0
    /\ TokenIdle
    /\ RetryIdle

NextAdmit == \E raddr \in RemoteAddrs : NewSession(raddr)

SpecAdmit == InitAdmit /\ [][NextAdmit]_vars

-----------------------------------------------------------------------------
(* SpecPayload: the request one sendEmailOnce call builds.  emailFrom,     *)
(* emailTo, emailSubject and emailBody are the arguments SendEmail got     *)
(* from Session.Data, cfg holds the GraphSender's mailbox, and outbox the  *)
(* request built: the segments of its URL path and its payload.            *)

\* send.graph.mailbox: not configured, or a fixed mailbox
Mailboxes == {<<>>, <<"m", "@", "x">>}

\* envelope senders, one with a character url.PathEscape escapes
EnvelopeFroms == {<<"a", "@", "x">>, <<"a", "/", "b", "@", "x">>}

RecipientChoices == {<<"r", "@", "x">>, <<"s", "@", "y">>}
RecipientLists == UNION {[1..k -> RecipientChoices] : k \in 0..MaxRcptBound}

\* url.PathEscape on one character of the model's alphabet
EscapeChar(c) ==
    CASE c = "/" -> <<"%", "2", "F">>
      [] c = "%" -> <<"%", "2", "5">>
      [] OTHER -> <<c>>

\* url.PathEscape
RECURSIVE PathEscape(_)
PathEscape(str) ==
    IF str = <<>> THEN <<>> ELSE EscapeChar(Head(str)) \o PathEscape(Tail(str))

\* makeEmailRequest
makeEmailRequest(from, to, subject, body) ==
    [Subject |-> subject,
     Body |-> [ContentType |-> "HTML", Content |-> body],
     From |-> from,
     ToRecipients |-> [i \in 1..Len(to) |-> to[i]]]

\* mutant of SendFrom: the configured mailbox is not used
SendFromEnvelope(mailbox, from) == from

\* the sender address sendEmailOnce uses
SendFrom(mailbox, from) == IF mailbox # <<>> THEN mailbox ELSE from

\* sendEmailOnce from the mailbox substitution to the request built
BuildRequest ==
    /\ ret.op = "idle"
    /\ outbox' = [url |-> <<"v1.0", "users",
                            PathEscape(SendFrom(cfg.Mailbox, emailFrom)), "sendMail">>,
                  payload |-> makeEmailRequest(SendFrom(cfg.Mailbox, emailFrom),
                                               emailTo, emailSubject, emailBody)]
    /\ ret' = Result("sendEmailOnce", emailFrom, Nil)
    /\ UNCHANGED <<cfg, authenticated, emailSubject, emailFrom, emailTo, emailBody,
                   ctxDone, sasl, nread>>
    /\ UNCHANGED <<tokVars, retryVars>>

InitPayload ==
    /\ cfg \in [Mailbox : Mailboxes]
    /\ authenticated = FALSE
    /\ emailSubject \in {<<>>, <<"s">>}
    /\ emailFrom \in EnvelopeFroms
    /\ emailTo \in RecipientLists
    /\ emailBody \in {<<>>, <<"x">>}
    /\ ctxDone = FALSE
    /\ sasl = NoServer
    /\ ret = Result("idle", <<>>, Nil)
    /\ outbox = NoCall
    /\ nread = 0
    /\ TokenIdle
    /\ RetryIdle

NextPayload == BuildRequest

SpecPayload == InitPayload /\ [][NextPayload]_vars

-----------------------------------------------------------------------------
(* SpecAuth: an Authenticator built by one of the constructors of          *)
(* pkg/auth and the Check calls made on it.  cfg holds the constructor     *)
(* used and the value it returned; ret the last Check call and its result. *)
(* Secrets and stored values are character sequences; the bcrypt digest of *)
(* a secret is the secret behind a "$" marker, so that no secret of the    *)
(* model is its own digest.                                                *)

\* a bcrypt digest of secret
Digest(secret) == <<"$">> \o secret

\* bcrypt.CompareHashAndPassword returned nil
CompareHashAndPassword(hashed, password) == hashed = Digest(password)

\* the secrets a client presents: two passwords and the text of a digest
Secrets == {<<"p">>, <<"q">>, Digest(<<"p">>)}

\* the values a credentials map stores: a password as written, or its digest
StoredValues == {<<"p">>, Digest(<<"p">>)}

CredentialMaps ==
    [{"alice"} -> StoredValues] \cup [{"alice", "bob"} -> StoredValues]

CheckUsernames == {"alice", "bob", "carol"}

\* AuthenticatorPlaintext.Check on the map creds
PlaintextCheckIn(creds, username, password) ==
    IF username \in DOMAIN creds THEN password = creds[username] ELSE FALSE

\* AuthenticatorHashed.Check on the map creds
HashedCheckIn(creds, username, password) ==
    IF username \in DOMAIN creds
    THEN CompareHashAndPassword(creds[username], password)
    ELSE FALSE

NewAuthenticatorPlaintext(creds) ==
    [type |-> "AuthenticatorPlaintext", credentials |-> creds]

\* declared to return *AuthenticatorPlaintext, and does
NewAuthenticatorHashed(creds) ==
    [type |-> "AuthenticatorPlaintext", credentials |-> creds]

NewAuthenticatorAlwaysAllow ==
    [type |-> "AuthenticatorAlwaysAllow", credentials |-> <<>>]

Constructors ==
    {"NewAuthenticatorPlaintext", "NewAuthenticatorHashed", "NewAuthenticatorAlwaysAllow"}

Construct(name, creds) ==
    CASE name = "NewAuthenticatorPlaintext" -> NewAuthenticatorPlaintext(creds)
      [] name = "NewAuthenticatorHashed" -> NewAuthenticatorHashed(creds)
      [] name = "NewAuthenticatorAlwaysAllow" -> NewAuthenticatorAlwaysAllow

\* the method the interface value a dispatches Check to
CheckOf(a, username, password) ==
    CASE a.type = "AuthenticatorPlaintext" ->
            PlaintextCheckIn(a.credentials, username, password)
      [] a.type = "AuthenticatorHashed" ->
            HashedCheckIn(a.credentials, username, password)
      [] a.type = "AuthenticatorAlwaysAllow" ->
            AlwaysAllowCheck(username, password)

\* Authenticator.Check
Check(username, password) ==
    /\ ret' = Result("Check", <<username, password>>,
                     CheckOf(cfg.Authenticator, username, password))
    /\ UNCHANGED <<cfg, authenticated, emailSubject, emailFrom, emailTo, emailBody,
                   ctxDone, sasl, outbox, nread>>
    /\ UNCHANGED <<tokVars, retryVars>>

InitAuth ==
    /\ \E name \in Constructors, creds \in CredentialMaps :
          cfg = [Constructor |-> name, Credentials |-> creds,
                 Authenticator |-> Construct(name, creds)]
    /\ authenticated = FALSE
    /\ emailSubject = <<>>
    /\ emailFrom = <<>>
    /\ emailTo = <<>>
    /\ emailBody = <<>>
    /\ ctxDone = FALSE
    /\ sasl = NoServer
    /\ ret = Result("idle", <<>>, FALSE)
    /\ outbox = NoCall
    /\ nread = 0
    /\ TokenIdle
    /\ RetryIdle

NextAuth == \E username \in CheckUsernames, password \in Secrets : Check(username, password)

SpecAuth == InitAuth /\ [][NextAuth]_vars

-----------------------------------------------------------------------------
(* SpecRetry: one call of utils.DoWithBackoff.  The frame rb holds the     *)
(* arguments (attempts, backoff in nanoseconds), the loop index i, the     *)
(* local err, the delay of the pending sleep, whether ctx is cancelled,    *)
(* how often the operation was invoked and how often it failed, and the    *)
(* value returned.  pc is "top" at the loop condition, "op" while the      *)
(* operation runs, "sleep" in the select, "returned" after a return and    *)
(* "panicked" when rand.Int63n panicked.                                   *)

ErrCanceled == "context canceled"
\* the errors of sendEmailOnce, the operation SendEmail passes: the token
\* could not be ensured; the payload or the request could not be built; the
\* POST failed or was not answered with 202
ErrBuildRequest == "failed to marshal email request"
SendOnceErrors == {ErrAuthenticationFailed, ErrBuildRequest, ErrSendFailed}

\* the backoff arguments tried: unset, below four nanoseconds, and two values
\* that leave a jitter range of one and of two
Backoffs == {0, 3, 4, 8}

\* rand.Int63n(n) panics unless n > 0
Int63nPanics(n) == n <= 0

\* the values rand.Int63n(n) can return
Int63n(n) == 0..(n - 1)

\* mutant of LoopTop: the loop does not test ctx before it calls the operation
LoopTopNoCtxCheck ==
    /\ rb.pc = "top"
    /\ rb' = IF rb.i >= rb.attempts
                THEN [rb EXCEPT !.pc = "returned", !.result = rb.err]
             ELSE [rb EXCEPT !.pc = "op", !.calls = rb.calls + 1]
    /\ UNCHANGED <<sessVars, tokVars>>

\* the loop condition and, inside the loop, the ctx test and the call of the
\* operation
LoopTop ==
    /\ rb.pc = "top"
    /\ rb' = IF rb.i >= rb.attempts
                THEN [rb EXCEPT !.pc = "returned", !.result = rb.err]
             ELSE IF rb.cancelled
                THEN [rb EXCEPT !.pc = "returned", !.err = ErrCanceled,
                                !.result = ErrCanceled]
             ELSE [rb EXCEPT !.pc = "op", !.calls = rb.calls + 1]
    /\ UNCHANGED <<sessVars, tokVars>>

\* the operation returns e; on an error the delay is computed and the select
\* entered
OpReturns(e) ==
    /\ rb.pc = "op"
    /\ IF e = Nil
          THEN rb' = [rb EXCEPT !.pc = "returned", !.err = Nil, !.result = Nil]
       ELSE IF rb.i >= rb.attempts
          THEN rb' = [rb EXCEPT !.pc = "returned", !.err = e, !.result = e,
                                !.fails = rb.fails + 1]
       ELSE IF Int63nPanics(rb.backoff \div 4)
          THEN rb' = [rb EXCEPT !.pc = "panicked", !.err = e,
                                !.fails = rb.fails + 1]
       ELSE \E jitter \in Int63n(rb.backoff \div 4) :
                rb' = [rb EXCEPT !.pc = "sleep", !.err = e,
                                 !.fails = rb.fails + 1,
                                 !.sleep = rb.backoff * Pow2(rb.i) + jitter]
    /\ UNCHANGED <<sessVars, tokVars>>

\* case <-time.After(sleep): the loop goes on with i++
TimerFires ==
    /\ rb.pc = "sleep"
    /\ rb' = [rb EXCEPT !.pc = "top", !.i = rb.i + 1, !.sleep = 0]
    /\ UNCHANGED <<sessVars, tokVars>>

\* case <-ctx.Done()
SleepCancelled ==
    /\ rb.pc = "sleep"
    /\ rb.cancelled
    /\ rb' = [rb EXCEPT !.pc = "returned", !.result = ErrCanceled]
    /\ UNCHANGED <<sessVars, tokVars>>

\* the caller's context is cancelled while the call runs
CancelRetry ==
    /\ rb.pc \in {"top", "op", "sleep"}
    /\ ~rb.cancelled
    /\ rb' = [rb EXCEPT !.cancelled = TRUE]
    /\ UNCHANGED <<sessVars, tokVars>>

InitRetry ==
    /\ SessionIdle
    /\ TokenIdle
    /\ \E attempts \in -1..MaxAttempts, backoff \in Backoffs :
          rb = [NoFrame EXCEPT !.pc = "top", !.attempts = attempts,
                               !.backoff = backoff]

NextRetry ==
    \/ LoopTop
    \/ \E e \in {Nil} \cup SendOnceErrors : OpReturns(e)
    \/ TimerFires
    \/ SleepCancelled
    \/ CancelRetry

SpecRetry == InitRetry /\ [][NextRetry]_vars

\* SpecRetry with the scheduling the runtime gives the calling goroutine: it
\* is run whenever it can take a step, the operation it called returns, and
\* a timer or a cancellation that is ready is received by the select
FairRetry ==
    /\ WF_vars(LoopTop)
    /\ WF_vars(\E e \in {Nil} \cup SendOnceErrors : OpReturns(e))
    /\ WF_vars(TimerFires \/ SleepCancelled)

SpecRetryFair == SpecRetry /\ FairRetry

-----------------------------------------------------------------------------
(* Properties of the session (Spec).                                       *)

\* the step is a call of one of the hooks in ops (Cancel is the only step that
\* is not a hook, and the only one that changes ctxDone)
Called(ops) == ret'.op \in ops /\ ctxDone' = ctxDone

\* C1: on a listener that requires authentication, every Mail, Rcpt and Data
\* call of an unauthenticated session fails with ErrAuthRequired and records
\* nothing, so an unauthenticated session has no sender, no recipient, no body
\* and has handed nothing to the Sender.
C1_UnauthenticatedRejected ==
    /\ [](cfg.RequireAuth /\ ~authenticated
            => emailFrom = <<>> /\ emailTo = <<>> /\ emailBody = <<>> /\ outbox = NoCall)
    /\ [][cfg.RequireAuth /\ ~authenticated /\ Called({"Mail", "Rcpt", "Data"})
            => /\ ret'.err = ErrAuthRequired
               /\ emailFrom' = emailFrom
               /\ emailTo' = emailTo
               /\ outbox' = NoCall]_vars

\* C1 witness: an unauthenticated session had its Data call rejected
C1_Witness ==
    /\ cfg.RequireAuth
    /\ ~authenticated
    /\ ret.op = "Data"
    /\ ret.arg > 0
    /\ ret.err = ErrAuthRequired

\* C2 (as claimed): once the context is cancelled, every Auth, Mail, Rcpt and
\* Data call fails with ErrServerClosed, whatever the session state.
C2_CancelledFirst ==
    [][ctxDone /\ Called({"Auth", "Mail", "Rcpt", "Data"})
            => ret'.err = ErrServerClosed]_vars

\* C3: the recipient list never holds more than MaxRecipients entries; a Rcpt
\* call with an admissible address (the session passes the auth check, is not
\* cancelled, the address is non-empty and allowed) appends it while the list
\* is shorter than MaxRecipients, and fails with ErrTooManyRecipients, list
\* unchanged, once the list holds MaxRecipients entries.
C3_RecipientLimit ==
    /\ [](Len(emailTo) <= cfg.MaxRecipients)
    /\ [][(/\ Called({"Rcpt"})
           /\ ~(cfg.RequireAuth /\ ~authenticated)
           /\ ~ctxDone
           /\ Len(Trim(ret'.arg, Brackets)) > 0
           /\ PolicyAllows(cfg.ValidTo, Trim(ret'.arg, Brackets)))
          => IF Len(emailTo) < cfg.MaxRecipients
             THEN /\ ret'.err = Nil
                  /\ emailTo' = Append(emailTo, Trim(ret'.arg, Brackets))
             ELSE /\ ret'.err = ErrTooManyRecipients
                  /\ emailTo' = emailTo
                  /\ Len(emailTo') = cfg.MaxRecipients]_vars

\* C3 witness: with a limit of at least 2, the list is full and one more
\* recipient was refused
C3_Witness ==
    /\ cfg.MaxRecipients >= 2
    /\ Len(emailTo) = cfg.MaxRecipients
    /\ ret.op = "Rcpt"
    /\ ret.err = ErrTooManyRecipients

C5_MailClearsRecipients ==
    [][Called({"Mail"}) /\ ret'.err = Nil
            => emailFrom' = Trim(ret'.arg, Brackets) /\ emailTo' = <<>>]_vars

\* C6: in mode plain, a PLAIN exchange succeeds and sets authenticated exactly
\* when the username is a configured one and the password equals its stored
\* password; otherwise it fails with ErrAuthFailed and leaves the flag as it
\* was.  The flag only ever becomes true by such a passing exchange.
C6_PlainAuth ==
    [][cfg.Mode = AuthPlain =>
        /\ (Called({"authPlain"}) =>
              IF /\ ret'.arg[1] \in DOMAIN Credentials
                 /\ ret'.arg[2] = Credentials[ret'.arg[1]]
              THEN ret'.err = Nil /\ authenticated'
              ELSE ret'.err = ErrAuthFailed /\ authenticated' = authenticated)
        /\ ((~authenticated /\ authenticated') =>
              /\ Called({"authPlain"})
              /\ ret'.arg[1] \in DOMAIN Credentials
              /\ ret'.arg[2] = Credentials[ret'.arg[1]])]_vars

\* C6 witness: the right user with the password in the wrong case was refused
C6_Witness ==
    /\ cfg.Mode = AuthPlain
    /\ ret.op = "authPlain"
    /\ ret.arg = <<"alice", "P">>
    /\ ret.err = ErrAuthFailed
    /\ ~authenticated

-----------------------------------------------------------------------------
(* Properties of the token cache (SpecToken).                              *)

\* C7: Authenticate returns at once, with no token request, exactly when a
\* token is cached whose expiry is more than 60 seconds ahead; otherwise it
\* issues one token request, never a second one in the same call, and on a
\* successful answer the token it stores expires at the time of the answer
\* plus the expires_in of the answer.
C7_TokenReuse ==
    /\ [](\A w \in Workers :
            /\ wk[w].reqs \in {0, 1}
            /\ (wk[w].pc \in {"check", "request"} => wk[w].reqs = 0)
            /\ (wk[w].pc \in {"await", "lock", "store", "unlock"} => wk[w].reqs = 1)
            /\ (wk[w].pc = "done" /\ wk[w].err = ErrAuthenticationFailed => wk[w].reqs = 1))
    /\ [][\A w \in Workers :
            /\ (wk[w].pc = "check" /\ wk'[w].pc # "check") =>
                  IF token # NoToken /\ token.ExpiresAt - now > 60
                  THEN wk'[w].pc = "send" /\ wk'[w].reqs = 0 /\ issued' = issued
                  ELSE wk'[w].pc = "request"
            /\ (wk[w].pc = "request" /\ wk'[w].pc # "request") =>
                  wk'[w].pc = "await" /\ issued' = issued + 1
            /\ (wk[w].pc = "await" /\ wk'[w].pc = "lock") =>
                  wk'[w].tok.ExpiresAt = now + wk'[w].expiresIn
            /\ (wk[w].pc = "store" /\ wk'[w].pc # "store") =>
                  token' = wk[w].tok /\ token' # NoToken]_vars

\* C7 witness: after a refresh, a later call found the cached token valid and
\* finished without a token request
C7_Witness ==
    \E w \in Workers :
        /\ wk[w].pc = "done"
        /\ wk[w].reqs = 0
        /\ wk[w].err = Nil
        /\ token.ExpiresAt - now > 60

\* C8: a failed token request makes Authenticate return the authentication
\* error with the cached token left exactly as it was; the cached token only
\* ever changes by the store of a worker whose own request succeeded.
C8_FailureKeepsToken ==
    [][/\ \A w \in Workers :
            (wk[w].pc = "await" /\ wk'[w].pc = "done") =>
                wk'[w].err = ErrAuthenticationFailed /\ token' = token
       /\ token' # token =>
            \E w \in Workers :
                wk[w].pc = "store" /\ wk[w].err = Nil /\ token' = wk[w].tok]_vars

\* C8 witness: a refresh failed while a token was cached, and it still is
C8_Witness ==
    \E w \in Workers :
        /\ wk[w].pc = "done"
        /\ wk[w].err = ErrAuthenticationFailed
        /\ token # NoToken

\* C9 (as claimed): at most one token request is in flight at any time, and no
\* worker is at a read of the cached token while another worker is writing it.
C9_RefreshSerialized ==
    /\ Cardinality({w \in Workers : wk[w].pc = "await"}) <= 1
    /\ \A w1, w2 \in Workers :
          w1 # w2 => ~(wk[w1].pc = "store" /\ wk[w2].pc \in {"check", "send"})

\* C28: an attempt issues the send POST only after Authenticate returned
\* nil: an attempt whose token request failed has issued no POST, the cached
\* token is never nil where the POST is built (building it never panics), a
\* POST is issued only by an attempt that has then returned, and an attempt
\* returns nil only after a POST answered with status 202: every other
\* outcome of the POST, status 200 included, is a failure of the attempt.
C28_AttemptOrder ==
    \A w \in Workers :
        /\ wk[w].err = ErrAuthenticationFailed => ~wk[w].posted
        /\ wk[w].pc = "send" => token # NoToken
        /\ wk[w].pc # "panicked"
        /\ wk[w].posted => wk[w].pc = "done"
        /\ wk[w].pc = "done" =>
              (wk[w].err = Nil <=> wk[w].posted /\ wk[w].status = StatusAccepted)

\* one attempt was accepted with 202 and another, answered 200, failed
C28_Witness ==
    \E w, v \in Workers :
        /\ wk[w].pc = "done" /\ wk[w].posted
        /\ wk[w].status = StatusAccepted /\ wk[w].err = Nil
        /\ wk[v].pc = "done" /\ wk[v].posted
        /\ wk[v].status = 200 /\ wk[v].err = ErrSendFailed

\* C32 (as claimed): under every interleaving of the workers the cached token
\* is only ever replaced by one of a later-issued request and with an expiry
\* that is not earlier: the expiry never moves backwards and no token
\* overwrites one issued after it.
C32_ExpiryMonotonic ==
    [][/\ token'.ExpiresAt >= token.ExpiresAt
       /\ token'.Token >= token.Token]_vars

-----------------------------------------------------------------------------
(* Properties of DoWithBackoff (SpecRetry).                                *)

\* C10 (as claimed): without cancellation the operation is invoked at most
\* attempts times; a success ends the call at once with result nil; and a call
\* that has ended without a success has invoked the operation attempts times,
\* so an operation that fails k-1 times and then succeeds, k <= attempts, is
\* always invoked k times.
C10_RetryInvocations ==
    ~rb.cancelled =>
        /\ (rb.attempts >= 0 => rb.calls <= rb.attempts)
        /\ (rb.calls > rb.fails /\ rb.pc # "op" =>
                rb.pc = "returned" /\ rb.result = Nil /\ rb.calls = rb.fails + 1)
        /\ (rb.pc \in {"returned", "panicked"} /\ rb.calls = rb.fails /\ rb.attempts >= 0 =>
                rb.calls = rb.attempts)

\* C11 (as claimed): DoWithBackoff sleeps only while attempts remain, and a
\* call whose attempts invocations all failed returns the error of the last
\* invocation.
C11_RetryExhaustion ==
    /\ (rb.pc = "sleep" => rb.calls < rb.attempts)
    /\ (rb.pc = "returned" /\ rb.attempts > 0 /\ rb.fails = rb.attempts =>
            rb.result = rb.err /\ rb.result \in SendOnceErrors)

\* C12: with ctx cancelled the operation is never invoked again: the test at the
\* top of an iteration returns the cancellation error without a call, and the
\* ctx.Done case of the select ends a sleep with the cancellation error.
C12_RetryCancellation ==
    [][/\ (rb.cancelled /\ rb.pc # "op" => rb'.calls = rb.calls)
       /\ (rb.cancelled /\ rb.pc = "top" /\ rb.i < rb.attempts =>
             rb'.pc = "returned" /\ rb'.result = ErrCanceled)
       /\ (rb.pc = "sleep" /\ rb'.pc = "returned" =>
             rb.cancelled /\ rb'.result = ErrCanceled /\ rb'.calls = rb.calls)]_vars

\* C12 witness: a sleep between two attempts was ended by the cancellation
C12_Witness ==
    /\ rb.pc = "returned"
    /\ rb.result = ErrCanceled
    /\ rb.sleep > 0
    /\ rb.calls >= 1
    /\ rb.calls < rb.attempts

\* C13 (as claimed): an attempt that could not build the payload or the request
\* is the only attempt of its call; after every other failure the call goes on
\* while attempts remain.
C13_BuildErrorNotRetried ==
    [][rb.pc = "op" /\ rb'.pc # "op" =>
         IF rb'.err = ErrBuildRequest
         THEN rb'.pc = "returned" /\ rb'.result = ErrBuildRequest /\ rb'.calls = 1
         ELSE rb'.err = Nil \/ rb'.pc = "sleep" \/ rb.calls >= rb.attempts]_vars

\* C27 (as claimed): for every backoff above zero the delay after a failed
\* attempt is always computed, the jitter draw never failing, and the delay
\* after the failed attempt of index i is backoff * 2^i + j for a j with
\* 0 <= j and 4 * j < backoff.
C27_BackoffDelay ==
    rb.backoff > 0 =>
        /\ rb.pc # "panicked"
        /\ (rb.pc = "sleep" =>
              \E j \in 0..rb.backoff :
                  /\ 4 * j < rb.backoff
                  /\ rb.sleep = rb.backoff * Pow2(rb.i) + j)

\* C30 (as claimed): whatever the number of attempts configured, zero and
\* negative numbers included, a call whose context is never cancelled returns
\* nil only after it invoked op at least once and the last invocation
\* returned nil.
C30_SuccessNeedsAttempt ==
    rb.pc = "returned" /\ rb.result = Nil /\ ~rb.cancelled =>
        /\ rb.calls >= 1
        /\ rb.calls = rb.fails + 1

\* C33 (as claimed): provided each invocation of op returns, a call returns
\* in the end, cancelled or not; it invokes op at most attempts times; once
\* the cancellation is there at the top of the loop no further invocation is
\* started; and a cancelled call of which no invocation succeeded returns an
\* error.
C33_CancelledSendReturns ==
    /\ <>(rb.pc = "returned")
    /\ (rb.cancelled ~> rb.pc = "returned")
    /\ [](rb.calls <= IF rb.attempts > 0 THEN rb.attempts ELSE 0)
    /\ [](rb.pc = "returned" /\ rb.cancelled /\ rb.fails = rb.calls =>
             rb.result # Nil)
    /\ [][rb.cancelled /\ rb.pc = "top" => rb'.calls = rb.calls]_vars

-----------------------------------------------------------------------------
(* Further properties of the session (Spec).                               *)

\* C14: a Data call that is not refused for authentication, cancellation, a
\* read error or size calls SendEmail once, with the session's sender and
\* recipients as they are and the subject and body it has just recorded, and
\* returns what SendEmail returned: nil exactly when SendEmail returned nil.
\* A refused Data call does not call SendEmail.
C14_DataHandsOver ==
    [][Called({"Data"}) =>
         /\ emailFrom' = emailFrom
         /\ emailTo' = emailTo
         /\ (ret'.arg <= cfg.MaxSize
               /\ ret'.err \notin {ErrAuthRequired, ErrServerClosed, ErrRead}
               => outbox'.called)
         /\ IF outbox'.called
            THEN /\ outbox'.from = emailFrom
                 /\ outbox'.to = emailTo
                 /\ outbox'.subject = emailSubject'
                 /\ outbox'.body = emailBody'
                 /\ ret'.err = outbox'.err
                 /\ (ret'.err = Nil <=> outbox'.err = Nil)
            ELSE ret'.err \in {ErrAuthRequired, ErrServerClosed, ErrRead, ErrDataTooLarge}]_vars

\* C14 witness: SendEmail got a sender and a recipient and failed, and Data
\* returned its error
C14_Witness ==
    /\ ret.op = "Data"
    /\ outbox.called
    /\ outbox.from # <<>>
    /\ Len(outbox.to) >= 1
    /\ outbox.err = ErrSend
    /\ ret.err = ErrSend

\* C16: Reset empties the sender, the recipient list and the body and changes
\* neither the authenticated flag nor the configuration; nothing ever clears
\* the flag, so an authenticated session is never refused with ErrAuthRequired,
\* before or after a Reset.
C16_ResetKeepsAuth ==
    [][/\ (Called({"Reset"}) =>
              /\ emailFrom' = <<>>
              /\ emailTo' = <<>>
              /\ emailBody' = <<>>
              /\ authenticated' = authenticated
              /\ cfg' = cfg
              /\ ret'.err = Nil)
       /\ (authenticated => authenticated')
       /\ (authenticated /\ Called({"Mail", "Rcpt", "Data"}) =>
              ret'.err # ErrAuthRequired)]_vars

\* C16 witness: on a listener that requires authentication, an authenticated
\* session that has sent a message was reset and is still authenticated
C16_Witness ==
    /\ ret.op = "Reset"
    /\ cfg.RequireAuth
    /\ authenticated
    /\ emailSubject # <<>>

\* C17 (as claimed): after Reset the sender, the recipient list, the subject and
\* the body of the session are all empty.
C17_ResetClearsAll ==
    ret.op = "Reset" =>
        /\ emailFrom = <<>>
        /\ emailTo = <<>>
        /\ emailSubject = <<>>
        /\ emailBody = <<>>

\* C18: AuthMechanisms is empty when the listener does not require
\* authentication; otherwise it is empty for mode disabled, ANONYMOUS alone for
\* anonymous, PLAIN alone for plain and for plain-any, and empty for a mode that
\* is none of these.
C18_OfferedMechanisms ==
    /\ \A requireAuth \in BOOLEAN, mode \in AuthModes \cup {"", "login"} :
          MechanismsFor(requireAuth, mode) =
              IF ~requireAuth THEN <<>>
              ELSE IF mode = "anonymous" THEN <<"ANONYMOUS">>
              ELSE IF mode \in {"plain", "plain-any"} THEN <<"PLAIN">>
              ELSE <<>>
    /\ AuthMechanisms =
          IF ~cfg.RequireAuth THEN <<>>
          ELSE IF cfg.Mode = "anonymous" THEN <<"ANONYMOUS">>
          ELSE IF cfg.Mode \in {"plain", "plain-any"} THEN <<"PLAIN">>
          ELSE <<>>
    /\ (ret.op = "Auth" /\ ret.err = Nil => Contains(AuthMechanisms, ret.arg))

\* C18 witness: the one mechanism offered in mode anonymous was begun
C18_Witness ==
    /\ cfg.RequireAuth
    /\ cfg.Mode = "anonymous"
    /\ ret.op = "Auth"
    /\ ret.arg = "ANONYMOUS"
    /\ ret.err = Nil

\* C19 (as claimed): Auth returns a server for mechanism m exactly when m is in
\* AuthMechanisms, and fails with ErrAuthUnsupported for every other m, leaving
\* the session as it was.
C19_AuthOffered ==
    [][Called({"Auth"}) =>
         /\ IF Contains(AuthMechanisms, ret'.arg)
            THEN ret'.err = Nil /\ sasl' = ret'.arg
            ELSE ret'.err = ErrAuthUnsupported /\ sasl' = NoServer
         /\ UNCHANGED <<cfg, authenticated, emailSubject, emailFrom, emailTo, emailBody>>]_vars

\* C19 (amended): while the session's context is not cancelled, Auth returns a
\* server for mechanism m exactly when m is in AuthMechanisms and fails with
\* ErrAuthUnsupported for every other m; once the context is cancelled it fails
\* with ErrServerClosed for every m.  The session is left as it was in each case.
C19_AuthOfferedUnlessCancelled ==
    [][Called({"Auth"}) =>
         /\ IF ctxDone
            THEN ret'.err = ErrServerClosed /\ sasl' = NoServer
            ELSE IF Contains(AuthMechanisms, ret'.arg)
            THEN ret'.err = Nil /\ sasl' = ret'.arg
            ELSE ret'.err = ErrAuthUnsupported /\ sasl' = NoServer
         /\ UNCHANGED <<cfg, authenticated, emailSubject, emailFrom, emailTo, emailBody>>]_vars

\* C19 witness: PLAIN was asked for in mode anonymous and refused
C19_Witness ==
    /\ cfg.RequireAuth
    /\ cfg.Mode = "anonymous"
    /\ ~ctxDone
    /\ ret.op = "Auth"
    /\ ret.arg = "PLAIN"
    /\ ret.err = ErrAuthUnsupported

\* C20: on a listener that requires authentication, in mode anonymous, the
\* ANONYMOUS exchange succeeds and sets the authenticated flag whatever identity
\* is claimed, and from then on no Mail, Rcpt or Data call fails with
\* ErrAuthRequired.
C20_AnonymousAuthenticates ==
    [][cfg.RequireAuth /\ cfg.Mode = "anonymous" =>
         /\ (Called({"authAnonymous"}) => authenticated' /\ ret'.err = Nil)
         /\ (ret.op = "authAnonymous" => authenticated)
         /\ (authenticated => authenticated')
         /\ (authenticated /\ Called({"Mail", "Rcpt", "Data"}) =>
                ret'.err # ErrAuthRequired)]_vars

\* C20 witness: an ANONYMOUS exchange with the empty identity authenticated
\* the session
C20_Witness ==
    /\ cfg.RequireAuth
    /\ cfg.Mode = "anonymous"
    /\ ret.op = "authAnonymous"
    /\ ret.arg = ""
    /\ ret.err = Nil
    /\ authenticated

\* C21: a Mail or Rcpt call that gets past the auth and cancellation checks
\* fails with ErrInvalidEmail exactly when its address is empty once the angle
\* brackets are trimmed; a non-empty address fails with ErrFromDisallowed (Mail)
\* or ErrToDisallowed (Rcpt) exactly when the policy lists an address or a
\* domain and the address neither equals a listed address nor ends with "@" and
\* a listed domain, letter case ignored.
C21_AllowPolicy ==
    ret.op \in {"Mail", "Rcpt"} /\ ret.err \notin {ErrAuthRequired, ErrServerClosed} =>
        LET addr == SelectSeq(ret.arg, LAMBDA c : c \notin {"<", ">"})
            policy == IF ret.op = "Mail" THEN cfg.ValidFrom ELSE cfg.ValidTo
            refusal == IF ret.op = "Mail" THEN ErrFromDisallowed ELSE ErrToDisallowed
            lower(str) == [k \in 1..Len(str) |-> LowerChar(str[k])]
            listed == \E i \in 1..Len(policy.Addresses) :
                          lower(policy.Addresses[i]) = lower(addr)
            inDomain == \E i \in 1..Len(policy.Domains) :
                          \E k \in 1..Len(addr) :
                              /\ addr[k] = "@"
                              /\ lower(SubSeq(addr, k + 1, Len(addr)))
                                    = lower(policy.Domains[i])
            unrestricted == policy.Addresses = <<>> /\ policy.Domains = <<>>
        IN  /\ (ret.err = ErrInvalidEmail <=> addr = <<>>)
            /\ (addr # <<>> =>
                  (ret.err = refusal <=> ~(unrestricted \/ listed \/ inDomain)))
            /\ (ret.op = "Mail" /\ ret.err = Nil => emailFrom = addr)

\* C21 witness: a sender was admitted by a listed domain written in another case
C21_Witness ==
    /\ ret.op = "Mail"
    /\ ret.err = Nil
    /\ cfg.ValidFrom.Domains = << <<"z", ".", "Y">> >>
    /\ emailFrom = <<"b", "@", "Z", ".", "y">>

\* C22 (as claimed): a Rcpt call with a non-empty address that gets past the
\* auth and cancellation checks while the recipient list is full fails with
\* ErrTooManyRecipients, whatever the recipient policy says of the address.
C22_FullListRefuses ==
    /\ ret.op = "Rcpt"
    /\ ret.err \notin {Nil, ErrAuthRequired, ErrServerClosed, ErrInvalidEmail}
    /\ Len(emailTo) = cfg.MaxRecipients
    => ret.err = ErrTooManyRecipients

\* C23 (as claimed): the recipient list is the sequence of the recipients
\* accepted in the current transaction: a successful Mail starts the
\* transaction with no recipient, every successful Rcpt appends its address at
\* the end (a duplicate too), a failed Rcpt and every other call but Reset
\* leave the list alone, and Data hands the list over as it is.
C23_RecipientSequence ==
    [][/\ (Called({"Mail"}) /\ ret'.err = Nil => emailTo' = <<>>)
       /\ (Called({"Rcpt"}) /\ ret'.err = Nil =>
              emailTo' = Append(emailTo, Trim(ret'.arg, Brackets)))
       /\ (Called({"Rcpt"}) /\ ret'.err # Nil => emailTo' = emailTo)
       /\ (Called({"Reset"}) => emailTo' = <<>>)
       /\ (Called({"Auth", "authPlain", "authAnonymous", "Data", "Logout"}) =>
              emailTo' = emailTo)
       /\ (Called({"Data"}) /\ outbox'.called => outbox'.to = emailTo)]_vars

\* C26: a Mail, Rcpt or Data call refused with ErrAuthRequired,
\* ErrServerClosed, ErrInvalidEmail, ErrFromDisallowed, ErrToDisallowed,
\* ErrTooManyRecipients or ErrDataTooLarge, and an Auth call refused with
\* ErrServerClosed, changes neither the authenticated flag nor the sender, the
\* recipient list, the subject or the body, and does not call SendEmail.
C26_RejectionFrame ==
    [][/\ Called({"Auth", "Mail", "Rcpt", "Data"})
       /\ ret'.err \in {ErrAuthRequired, ErrServerClosed, ErrInvalidEmail,
                        ErrFromDisallowed, ErrToDisallowed, ErrTooManyRecipients,
                        ErrDataTooLarge}
       => /\ authenticated' = authenticated
          /\ emailFrom' = emailFrom
          /\ emailTo' = emailTo
          /\ emailSubject' = emailSubject
          /\ emailBody' = emailBody
          /\ ~outbox'.called]_vars

\* C26 witness: a transaction with a sender and a full recipient list had one
\* more recipient refused
C26_Witness ==
    /\ ret.op = "Rcpt"
    /\ ret.err = ErrTooManyRecipients
    /\ emailFrom # <<>>
    /\ Len(emailTo) = cfg.MaxRecipients

\* C29: the authenticated flag is false when the session is created and no
\* step of the session takes it from true to false: not a failed PLAIN
\* exchange, not a refused mechanism, Mail, Rcpt, Data, Reset or Logout.
C29_AuthenticatedMonotonic ==
    /\ ~authenticated
    /\ [][authenticated => authenticated']_vars

\* an authenticated session has just failed a PLAIN exchange
C29_Witness ==
    /\ authenticated
    /\ ret.op = "authPlain"
    /\ ret.err = ErrAuthFailed

\* C31 (as claimed): for every sequence of session commands, a message handed
\* to the sender by Data carries a non-empty envelope sender and at least one
\* recipient.
C31_DataAfterMailAndRcpt ==
    outbox.called =>
        /\ outbox.from # <<>>
        /\ Len(outbox.to) >= 1

\* C34 (as claimed): no configuration that passed Validate has auth mode
\* disabled on a listener that requires authentication; and a session of
\* such a listener is offered no mechanism, is never authenticated, and never
\* accepts a sender, a recipient or a message.
C34_DisabledNeedsOpenListener ==
    /\ ~(cfg.RequireAuth /\ cfg.Mode = AuthDisabled)
    /\ (cfg.RequireAuth /\ cfg.Mode = AuthDisabled =>
          /\ AuthMechanisms = <<>>
          /\ sasl = NoServer
          /\ ~authenticated
          /\ emailFrom = <<>>
          /\ emailTo = <<>>
          /\ ~outbox.called)

-----------------------------------------------------------------------------
(* Properties of connection admission (SpecAdmit).                         *)

-----------------------------------------------------------------------------
(* Properties of the request built (SpecPayload).                          *)

-----------------------------------------------------------------------------
(* Properties of the authenticators (SpecAuth).                            *)

\* C25 (as claimed): the authenticator NewAuthenticatorHashed returns for a
\* map of digests accepts (username, secret) exactly when the username is in
\* the map and the value stored for it is a digest of the secret; a secret that
\* is the stored digest itself is refused.
C25_HashedAuthenticator ==
    /\ cfg.Constructor = "NewAuthenticatorHashed"
    /\ \A u \in DOMAIN cfg.Credentials : Head(cfg.Credentials[u]) = "$"
    /\ ret.op = "Check"
    =>
        LET username == ret.arg[1]
            secret == ret.arg[2]
        IN  ret.err <=> /\ username \in DOMAIN cfg.Credentials
                        /\ cfg.Credentials[username] = <<"$">> \o secret

====
